---------------------------- MODULE Spec2Model ----------------------------
(***************************************************************************)
(* State-machine model of src/src/components/UserManagement.tsx: a React   *)
(* function component that lists, creates, edits and deletes user records  *)
(* against a remote REST service.                                          *)
(*                                                                         *)
(* Every handler of the component is one action.  An async handler is two  *)
(* actions: the part before its await (the call is put in flight together  *)
(* with the values its closure captured from the render it was created in) *)
(* and the part after the await (the completion, which reads those         *)
(* captured values, not the current state).                                *)
(*                                                                         *)
(* Text that the code transforms (name, username) is a sequence of         *)
(* one-character strings; text the code only stores is a plain string.     *)
(***************************************************************************)
EXTENDS Integers, Sequences, FiniteSets, TLC

VARIABLES users, loading, openDialog, editingUser, formData, snackbar,
          clock, inflight, nCalls, deleted, last

vars == <<users, loading, openDialog, editingUser, formData, snackbar,
          clock, inflight, nCalls, deleted, last>>

(***************************************************************************)
(* Bounds of the model.                                                    *)
(***************************************************************************)
\* service calls (create, update, delete) issued in one behaviour
MaxCalls == 2
\* the same, in the specification of the claims about the form alone
MaxFormCalls == 1

\* the calls issued in the behaviours of SpecNotify
MaxNotifyCalls == 2
\* identifiers the service may put in a response: 1..MaxId
MaxId == 4

(***************************************************************************)
(* Text.                                                                   *)
(***************************************************************************)
Upper == <<"A","B","C","D","E","F","G","H","I","J","K","L","M",
           "N","O","P","Q","R","S","T","U","V","W","X","Y","Z">>

Lower == <<"a","b","c","d","e","f","g","h","i","j","k","l","m",
           "n","o","p","q","r","s","t","u","v","w","x","y","z">>

\* the characters the regular expression class \s matches (those used here)
Whitespace == {" ", "\t", "\n"}

\* String.prototype.toLowerCase on one character
ToLowerChar(c) ==
    IF \E i \in DOMAIN Upper : Upper[i] = c
    THEN Lower[CHOOSE i \in DOMAIN Upper : Upper[i] = c]
    ELSE c

\* the value of an absent property of text the code transforms
UndefinedSeq == <<"undefined">>

\* the value of an absent property of text the code only stores
UndefinedText == "undefined"

\* what a template literal makes of the value undefined
UndefinedChars == <<"u","n","d","e","f","i","n","e","d">>

\* String.prototype.toLowerCase
ToLowerCase(s) == [i \in DOMAIN s |-> ToLowerChar(s[i])]

\* s.replace(/\s+/g, ''): every run of whitespace is removed
RECURSIVE RemoveWhitespace(_)
RemoveWhitespace(s) ==
    IF s = <<>> THEN <<>>
    ELSE IF Head(s) \in Whitespace THEN RemoveWhitespace(Tail(s))
         ELSE <<Head(s)>> \o RemoveWhitespace(Tail(s))

\* the template literal's fixed text `USER-`
UserPrefix == <<"U","S","E","R","-">>

\* DerivedUsername with the call of toLowerCase left out
DerivedUsernameKeepsCase(name) ==
    IF name = UndefinedSeq THEN UserPrefix \o UndefinedChars
    ELSE UserPrefix \o RemoveWhitespace(name)

\* `USER-${formData.name?.toLowerCase().replace(/\s+/g, '')}`: the optional
\* chain yields undefined for an absent name, which the template prints
DerivedUsername(name) ==
    IF name = UndefinedSeq THEN UserPrefix \o UndefinedChars
    ELSE UserPrefix \o RemoveWhitespace(ToLowerCase(name))

\* value={formData.username || `USER-...`}: '' and undefined are falsy
PresentedUsername(fd) ==
    IF fd.username # <<>> /\ fd.username # UndefinedSeq THEN fd.username
    ELSE DerivedUsername(fd.name)

(***************************************************************************)
(* Records.                                                                *)
(***************************************************************************)
\* an absent (undefined) id
NoId == 0

\* the initial value of formData, and the value handleOpenDialog() resets it to
EmptyForm ==
    [id |-> NoId, name |-> <<>>, email |-> "", phone |-> "",
     username |-> <<>>, website |-> "",
     address |-> [street |-> "", city |-> ""],
     company |-> [name |-> ""]]

\* the JSON value {} : every property undefined
EmptyObject ==
    [id |-> NoId, name |-> UndefinedSeq, email |-> UndefinedText,
     phone |-> UndefinedText, username |-> UndefinedSeq,
     website |-> UndefinedText,
     address |-> [street |-> UndefinedText, city |-> UndefinedText],
     company |-> [name |-> UndefinedText]]

JaneDoe == <<"J","a","n","e"," ","D","o","e">>
AnnLee == <<"A","n","n"," ","L","e","e">>
BobRay == <<"B","o","b"," ","R","a","y">>

\* two records the service lists; the second one has no username
User1 ==
    [id |-> 1, name |-> AnnLee, email |-> "a@x.io", phone |-> "555",
     username |-> <<"a","n","n">>, website |-> "",
     address |-> [street |-> "Main St", city |-> "Paris"],
     company |-> [name |-> ""]]

User2 ==
    [id |-> 2, name |-> BobRay, email |-> "a@x.io", phone |-> "555",
     username |-> <<>>, website |-> "",
     address |-> [street |-> "Main St", city |-> "Rome"],
     company |-> [name |-> ""]]

\* the lists GET /users may answer with
ServerLists == {<<User1, User2>>, <<User1>>}

ServerIds == 1..MaxId


(***************************************************************************)
(* The form: paths and values of the change events the inputs can fire.    *)
(***************************************************************************)
\* the name attributes of the inputs that are not disabled
InputNames ==
    {<<"name">>, <<"email">>, <<"phone">>,
     <<"address", "street">>, <<"address", "city">>}

\* the values typed into an input, per input
InputValues(path) ==
    CASE path = <<"name">> -> {JaneDoe}
      [] path = <<"email">> -> {"a@x.io"}
      [] path = <<"phone">> -> {"555"}
      [] path = <<"address", "street">> -> {"Main St"}
      [] path = <<"address", "city">> -> {"Boston"}

\* names that are not the name attribute of any input of the form: a field
\* that is not a field of User, a group that is not one, and a field that is
\* not one in a group that is.  The handler reads the name from the event
\* and is attached to the form's inputs only, so it meets such a name when
\* it is called with an event of another element.
UnrecognizedNames ==
    {<<"nickname">>, <<"geo", "lat">>, <<"address", "zip">>}

UnrecognizedValue == "x"

\* { ...prev, [name]: value }
SpreadSet(obj, key, value) ==
    [k \in DOMAIN obj \cup {key} |-> IF k = key THEN value ELSE obj[k]]

\* a handleInputChange that does not spread the group it writes into: the
\* group's other fields become undefined
SetFieldDropsSiblings(prev, path, value) ==
    IF Len(path) > 1
    THEN SpreadSet(prev, path[1],
                   [k \in DOMAIN prev[path[1]] |->
                       IF k = path[2] THEN value ELSE UndefinedText])
    ELSE SpreadSet(prev, path[1], value)

\* what the spread of an undefined value contributes: no property
NoProperties == [k \in {} |-> ""]

\* prev[parent], undefined when prev has no such property
GroupOf(prev, parent) ==
    IF parent \in DOMAIN prev THEN prev[parent] ELSE NoProperties

\* the new formData of handleInputChange for e.target = {name: path, value}
SetField(prev, path, value) ==
    IF Len(path) > 1
    THEN SpreadSet(prev, path[1],
                   SpreadSet(GroupOf(prev, path[1]), path[2], value))
    ELSE SpreadSet(prev, path[1], value)

\* a value the browser takes as missing in a required input
IsBlank(v) == v = "" \/ v = UndefinedText

IsBlankSeq(v) == v = <<>> \/ v = UndefinedSeq

\* The browser fires the form's submit event only when every input that is
\* required and not disabled has a value.  The username input is disabled,
\* so its required attribute is not enforced.
FormValid(fd) ==
    /\ ~IsBlankSeq(fd.name)
    /\ ~IsBlank(fd.email)
    /\ ~IsBlank(fd.phone)
    /\ ~IsBlank(fd.address.street)
    /\ ~IsBlank(fd.address.city)

(***************************************************************************)
(* Service calls in flight, and the record of the step last taken.         *)
(***************************************************************************)
NoUsers == <<>>

\* a call: its number, its kind, and what the handler's closure captured:
\* users and formData of the render, and the id the URL carries
Call(n, kind, us, body, id) ==
    [n |-> n, kind |-> kind, users |-> us, body |-> body, id |-> id]

NoCall == Call(0, "none", NoUsers, EmptyForm, NoId)

LoadCall == Call(0, "load", NoUsers, EmptyForm, NoId)

\* the state a step started from
Pre(us, od, eu, fd) ==
    [users |-> us, openDialog |-> od, editingUser |-> eu, formData |-> fd]

NoPre == Pre(NoUsers, FALSE, <<>>, EmptyForm)

PreNow == Pre(users, openDialog, editingUser, formData)

\* the record of a step: the handler, the outcome of the call it completes,
\* the call, the parsed response body (a list for fetchUsers, a record
\* otherwise), and the state the step started from
Step(op, outcome, call, resp, pre) ==
    [op |-> op, outcome |-> outcome, call |-> call, resp |-> resp, pre |-> pre]

\* the record of an intent, which completes no call
Intent(op) ==
    Step(op, "none", NoCall, EmptyObject,
         [NoPre EXCEPT !.users = users, !.openDialog = openDialog])


\* the ways a call can end:
\*   neterr   fetch rejects (network error)
\*   badjson  a response whose body is not JSON: response.json() rejects
\*   httperr  a non-success status with the JSON body {}
\*   ok       a success status with a JSON body
Outcomes == {"neterr", "badjson", "httperr", "ok"}

\* the outcomes after which the handler's catch block runs
Caught(kind, outcome) ==
    \/ outcome = "neterr"
    \/ outcome = "badjson" /\ kind # "delete"

\* the ids the service gives to created records: those it does not list.
\* A service that does not persist what it creates gives the same id again.
NewIds == ServerIds \ {User1.id, User2.id}

\* the bodies a response to call c may carry: the service answers a create
\* with the request's record under an id it assigns, an update with the
\* request's record under the id of the URL
Responses(c, outcome) ==
    IF outcome # "ok" THEN {EmptyObject}
    ELSE IF c.kind = "create" THEN {[c.body EXCEPT !.id = i] : i \in NewIds}
    ELSE IF c.kind = "update" THEN {[c.body EXCEPT !.id = c.id]}
    ELSE {EmptyObject}

Snack(message, severity) ==
    [open |-> TRUE, message |-> message, severity |-> severity]

(***************************************************************************)
(* The Snackbar's auto-hide timer.  Time is counted in units of 1000 ms    *)
(* and only while a notification is open.                                  *)
(***************************************************************************)
\* autoHideDuration={6000}
AutoHideDuration == 6

\* sinceEmit: the time since the latest setSnackbar({open: true, ...});
\* timer: the time since the Snackbar started its auto-hide timer
Clock(sinceEmit, timer) == [sinceEmit |-> sinceEmit, timer |-> timer]

NoClock == Clock(0, 0)

\* The clocks after a notification is emitted.  The Snackbar starts its
\* timer when open turns true; whether a notification emitted while one is
\* open starts the timer anew is the component library's choice, and both
\* are possible here.
EmitClocks ==
    {Clock(0, t) : t \in IF snackbar.open THEN {0, clock.timer} ELSE {0}}

\* a Snackbar without autoHideDuration: its timer never runs out
NoAutoHide == TRUE

\* the auto-hide timer has not run out
TimerPending == clock.timer < AutoHideDuration

(***************************************************************************)
(* The collection.                                                         *)
(***************************************************************************)
\* users.map(user => user.id === updatedUser.id ? updatedUser : user)
MapReplace(us, updatedUser) ==
    [i \in DOMAIN us |-> IF us[i].id = updatedUser.id THEN updatedUser ELSE us[i]]

\* users.filter(user => user.id !== userId)
RECURSIVE FilterOut(_, _)
FilterOut(us, userId) ==
    IF us = <<>> THEN <<>>
    ELSE IF Head(us).id # userId THEN <<Head(us)>> \o FilterOut(Tail(us), userId)
         ELSE FilterOut(Tail(us), userId)

\* [...users, newUser]
AppendUser(us, newUser) == us \o <<newUser>>

(***************************************************************************)
(* Initial state: the state after the first render and its effect, which   *)
(* calls fetchUsers.                                                       *)
(***************************************************************************)
Init ==
    /\ users = <<>>
    /\ loading = TRUE
    /\ openDialog = FALSE
    /\ editingUser = <<>>
    /\ formData = EmptyForm
    /\ snackbar = [open |-> FALSE, message |-> "", severity |-> "success"]
    /\ inflight = {LoadCall}
    /\ clock = NoClock
    /\ nCalls = 0
    /\ deleted = {}
    /\ last = Step("mount", "none", NoCall, EmptyObject, NoPre)

(***************************************************************************)
(* fetchUsers, after its awaits.                                           *)
(***************************************************************************)
\* the parsed body of a response to GET /users: a list of the service on
\* success, a JSON value with no entries otherwise
LoadData(outcome) == IF outcome = "ok" THEN ServerLists ELSE {<<>>}

\* a fetchUsers whose catch block does not call setLoading(false)
FetchUsersKeepsLoading(c, outcome, data) ==
    /\ c \in inflight
    /\ c.kind = "load"
    /\ inflight' = inflight \ {c}
    /\ last' = Step("fetchUsers", outcome, c, data, PreNow)
    /\ IF Caught(c.kind, outcome)
       THEN /\ snackbar' = Snack("Failed to fetch users", "error")
            /\ clock' \in EmitClocks
            /\ UNCHANGED <<users, loading>>
       ELSE /\ users' = data
            /\ loading' = FALSE
            /\ UNCHANGED <<snackbar, clock>>
    /\ UNCHANGED <<openDialog, editingUser, formData, nCalls, deleted>>

\* fetchUsers after its awaits: the end of the initial load
FetchUsersDone(c, outcome, data) ==
    /\ c \in inflight
    /\ c.kind = "load"
    /\ inflight' = inflight \ {c}
    /\ last' = Step("fetchUsers", outcome, c, data, PreNow)
    /\ IF Caught(c.kind, outcome)
       THEN /\ snackbar' = Snack("Failed to fetch users", "error")
            /\ clock' \in EmitClocks
            /\ loading' = FALSE
            /\ UNCHANGED users
       ELSE /\ users' = data
            /\ loading' = FALSE
            /\ UNCHANGED <<snackbar, clock>>
    /\ UNCHANGED <<openDialog, editingUser, formData, nCalls, deleted>>

(***************************************************************************)
(* The intents.  While loading the component renders only the progress     *)
(* indicator, so no handler can be reached.  The dialog is modal: while it *)
(* is open the buttons of the page behind it cannot be pressed.            *)
(***************************************************************************)
\* a handleOpenDialog() without its else branch: the buffer of the session
\* before is kept
HandleOpenDialogKeepsBuffer ==
    /\ ~loading
    /\ ~openDialog
    /\ editingUser' = <<>>
    /\ openDialog' = TRUE
    /\ last' = Intent("openAdd")
    /\ UNCHANGED <<users, loading, formData, snackbar, clock, inflight,
                   nCalls, deleted>>

\* handleOpenDialog(): the "Add New User" button
HandleOpenDialogAdd ==
    /\ ~loading
    /\ ~openDialog
    /\ editingUser' = <<>>
    /\ formData' = EmptyForm
    /\ openDialog' = TRUE
    /\ last' = Intent("openAdd")
    /\ UNCHANGED <<users, loading, snackbar, clock, inflight, nCalls,
                   deleted>>

\* handleOpenDialog(user): the edit button of row i
HandleOpenDialogEdit(i) ==
    /\ ~loading
    /\ ~openDialog
    /\ i \in DOMAIN users
    /\ editingUser' = <<users[i]>>
    /\ formData' = users[i]
    /\ openDialog' = TRUE
    /\ last' = Intent("openEdit")
    /\ UNCHANGED <<users, loading, snackbar, clock, inflight, nCalls,
                   deleted>>

\* handleCloseDialog: the Cancel button, or the dialog's onClose
HandleCloseDialog ==
    /\ ~loading
    /\ openDialog
    /\ openDialog' = FALSE
    /\ editingUser' = <<>>
    /\ last' = Intent("cancel")
    /\ UNCHANGED <<users, loading, formData, snackbar, clock, inflight,
                   nCalls, deleted>>

\* handleInputChange: a change event of an input of the open dialog
HandleInputChange(path, value) ==
    /\ ~loading
    /\ openDialog
    /\ formData' = SetField(formData, path, value)
    /\ formData' # formData
    /\ last' = Intent("change")
    /\ UNCHANGED <<users, loading, openDialog, editingUser, snackbar, clock,
                   inflight, nCalls, deleted>>

\* a handleSubmit that does not read editingUser and always creates
SubmitAlwaysCreates(cap) ==
    /\ ~loading
    /\ openDialog
    /\ FormValid(formData)
    /\ nCalls < cap
    /\ nCalls' = nCalls + 1
    /\ inflight' = inflight \cup {Call(nCalls', "create", users, formData, NoId)}
    /\ last' = Intent("submit")
    /\ UNCHANGED <<users, loading, openDialog, editingUser, formData, snackbar,
                   clock, deleted>>

\* handleSubmit, then handleCreateUser or handleUpdateUser up to its await,
\* while fewer than cap calls have been issued
SubmitWithin(cap) ==
    /\ ~loading
    /\ openDialog
    /\ FormValid(formData)
    /\ nCalls < cap
    /\ nCalls' = nCalls + 1
    /\ LET c == IF editingUser # <<>>
                THEN Call(nCalls', "update", users, formData, editingUser[1].id)
                ELSE Call(nCalls', "create", users, formData, NoId)
       IN /\ inflight' = inflight \cup {c}
          /\ last' = Intent("submit")
    /\ UNCHANGED <<users, loading, openDialog, editingUser, formData, snackbar,
                   clock, deleted>>

HandleSubmit == SubmitWithin(MaxCalls)

\* handleDeleteUser(user.id) up to its await: the delete button of row i,
\* while fewer than cap calls have been issued
DeleteWithin(i, cap) ==
    /\ ~loading
    /\ ~openDialog
    /\ i \in DOMAIN users
    /\ nCalls < cap
    /\ nCalls' = nCalls + 1
    /\ LET c == Call(nCalls', "delete", users, EmptyForm, users[i].id)
       IN /\ inflight' = inflight \cup {c}
          /\ last' = Intent("delete")
    /\ UNCHANGED <<users, loading, openDialog, editingUser, formData, snackbar,
                   clock, deleted>>

HandleDeleteUser(i) == DeleteWithin(i, MaxCalls)

\* the Snackbar's and the Alert's onClose, called for a reason other than
\* the timer: the Alert's close button, a click away
SnackbarClose ==
    /\ ~loading
    /\ snackbar.open
    /\ snackbar' = [snackbar EXCEPT !.open = FALSE]
    /\ clock' = NoClock
    /\ last' = Intent("snackbarClose")
    /\ UNCHANGED <<users, loading, openDialog, editingUser, formData,
                   inflight, nCalls, deleted>>

\* one unit of time passes while a notification is open and its timer has
\* not run out
Tick ==
    /\ ~loading
    /\ snackbar.open
    /\ TimerPending
    /\ clock' = Clock(clock.sinceEmit + 1, clock.timer + 1)
    /\ UNCHANGED <<users, loading, openDialog, editingUser, formData,
                   snackbar, inflight, nCalls, last, deleted>>

\* the Snackbar's onClose, called by the timer after autoHideDuration
SnackbarTimeout ==
    /\ ~loading
    /\ snackbar.open
    /\ clock.timer = AutoHideDuration
    /\ snackbar' = [snackbar EXCEPT !.open = FALSE]
    /\ clock' = NoClock
    /\ last' = Intent("timeout")
    /\ UNCHANGED <<users, loading, openDialog, editingUser, formData,
                   inflight, nCalls, deleted>>

(***************************************************************************)
(* The handlers after their awaits.  users, here c.users, is the value the *)
(* handler's closure captured when the call was issued.                    *)
(***************************************************************************)
HandleCreateUserDone(c, outcome, newUser) ==
    /\ c \in inflight
    /\ c.kind = "create"
    /\ inflight' = inflight \ {c}
    /\ last' = Step("handleCreateUser", outcome, c, newUser, PreNow)
    /\ IF Caught(c.kind, outcome)
       THEN /\ snackbar' = Snack("Failed to create user", "error")
            /\ UNCHANGED <<users, openDialog, editingUser>>
       ELSE /\ users' = AppendUser(c.users, newUser)
            /\ snackbar' = Snack("User created successfully", "success")
            /\ openDialog' = FALSE
            /\ editingUser' = <<>>
    /\ clock' \in EmitClocks
    /\ deleted' = IF outcome = "ok" THEN deleted \ {newUser.id} ELSE deleted
    /\ UNCHANGED <<loading, formData, nCalls>>

HandleUpdateUserDone(c, outcome, updatedUser) ==
    /\ c \in inflight
    /\ c.kind = "update"
    /\ inflight' = inflight \ {c}
    /\ last' = Step("handleUpdateUser", outcome, c, updatedUser, PreNow)
    /\ IF Caught(c.kind, outcome)
       THEN /\ snackbar' = Snack("Failed to update user", "error")
            /\ UNCHANGED <<users, openDialog, editingUser>>
       ELSE /\ users' = MapReplace(c.users, updatedUser)
            /\ snackbar' = Snack("User updated successfully", "success")
            /\ openDialog' = FALSE
            /\ editingUser' = <<>>
    /\ clock' \in EmitClocks
    /\ UNCHANGED <<loading, formData, nCalls, deleted>>

HandleDeleteUserDone(c, outcome) ==
    /\ c \in inflight
    /\ c.kind = "delete"
    /\ inflight' = inflight \ {c}
    /\ last' = Step("handleDeleteUser", outcome, c, EmptyObject, PreNow)
    /\ IF Caught(c.kind, outcome)
       THEN /\ snackbar' = Snack("Failed to delete user", "error")
            /\ UNCHANGED users
       ELSE /\ users' = FilterOut(c.users, c.id)
            /\ snackbar' = Snack("User deleted successfully", "success")
    /\ clock' \in EmitClocks
    /\ deleted' = IF outcome = "ok" THEN deleted \cup {c.id} ELSE deleted
    /\ UNCHANGED <<loading, openDialog, editingUser, formData, nCalls>>

\* the completions of the calls in flight
Completions ==
    \/ \E c \in inflight, o \in Outcomes :
         \E data \in LoadData(o) : FetchUsersDone(c, o, data)
    \/ \E c \in inflight, o \in Outcomes :
         \E r \in Responses(c, o) : HandleCreateUserDone(c, o, r)
    \/ \E c \in inflight, o \in Outcomes :
         \E r \in Responses(c, o) : HandleUpdateUserDone(c, o, r)
    \/ \E c \in inflight, o \in Outcomes \ {"badjson"} : HandleDeleteUserDone(c, o)

\* the intents that issue no call
FormIntents ==
    \/ HandleOpenDialogAdd
    \/ \E i \in DOMAIN users : HandleOpenDialogEdit(i)
    \/ HandleCloseDialog
    \/ \E path \in InputNames :
         \E value \in InputValues(path) : HandleInputChange(path, value)
    \/ SnackbarClose

Next ==
    \/ Completions
    \/ FormIntents
    \/ HandleSubmit
    \/ \E i \in DOMAIN users : HandleDeleteUser(i)

\* the same steps, with at most MaxFormCalls calls issued
NextForm ==
    \/ Completions
    \/ FormIntents
    \/ SubmitWithin(MaxFormCalls)
    \/ \E i \in DOMAIN users : DeleteWithin(i, MaxFormCalls)

\* the load, the edits and deletions of listed users with at most
\* MaxNotifyCalls calls issued, the closing of the notification, and the
\* passing of time
NextNotify ==
    \/ \E c \in inflight, o \in Outcomes :
         \E data \in LoadData(o) : FetchUsersDone(c, o, data)
    \/ \E i \in DOMAIN users : HandleOpenDialogEdit(i)
    \/ HandleCloseDialog
    \/ SubmitWithin(MaxNotifyCalls)
    \/ \E i \in DOMAIN users : DeleteWithin(i, MaxNotifyCalls)
    \/ \E c \in inflight, o \in Outcomes :
         \E r \in Responses(c, o) : HandleUpdateUserDone(c, o, r)
    \/ \E c \in inflight, o \in Outcomes \ {"badjson"} : HandleDeleteUserDone(c, o)
    \/ SnackbarClose
    \/ Tick
    \/ SnackbarTimeout

\* the form without calls, and change events with unrecognized names
NextPaths ==
    \/ \E c \in inflight, o \in Outcomes :
         \E data \in LoadData(o) : FetchUsersDone(c, o, data)
    \/ FormIntents
    \/ \E path \in UnrecognizedNames :
         HandleInputChange(path, UnrecognizedValue)

Spec == Init /\ [][Next]_vars

SpecPaths == Init /\ [][NextPaths]_vars

SpecForm == Init /\ [][NextForm]_vars

SpecNotify == Init /\ [][NextNotify]_vars

(***************************************************************************)
(* Vocabulary of the claims.                                               *)
(***************************************************************************)
Mutations == {"handleCreateUser", "handleUpdateUser", "handleDeleteUser"}

\* the step last taken handled the outcome of a create, update or delete call
Resolved == last.op \in Mutations

\* ... of a call that succeeded
Succeeded == Resolved /\ last.outcome = "ok"

\* ... of a call that failed: network error or non-success response
Failed == Resolved /\ last.outcome # "ok"

\* the steps that are not the handling of a service response
IntentOps ==
    {"openAdd", "openEdit", "change", "cancel", "submit", "delete",
     "snackbarClose", "timeout"}

IdsOf(us) == [i \in DOMAIN us |-> us[i].id]

Holders(us, id) == {i \in DOMAIN us : us[i].id = id}

\* the session: Closed, Creating or Editing(id), and the Edit Buffer
SessionOf(od, eu) ==
    IF ~od THEN <<"Closed">>
    ELSE IF eu = <<>> THEN <<"Creating">> ELSE <<"Editing", eu[1].id>>

\* C1: no two entries of users share an identifier (an entry with no id
\* shares none), and a step that is not the handling of a service response
\* leaves every entry's identifier alone.
C1_UniqueIds ==
    /\ \A i, j \in DOMAIN users :
          (i # j /\ users[i].id # NoId) => users[i].id # users[j].id
    /\ last.op \in IntentOps => IdsOf(users) = IdsOf(last.pre.users)

\* C2: after the outcome of a failed create, update or delete call is
\* handled, users is what it was immediately before.
C2_FailureLeavesUsers == Failed => users = last.pre.users

\* C3: a successful completion is applied to users as it is at completion
\* time, whatever else completed while the call was in flight.
C3_AppliedAtCompletion ==
    Succeeded =>
        users = CASE last.op = "handleCreateUser" ->
                       AppendUser(last.pre.users, last.resp)
                  [] last.op = "handleUpdateUser" ->
                       MapReplace(last.pre.users, last.resp)
                  [] last.op = "handleDeleteUser" ->
                       FilterOut(last.pre.users, last.call.id)

\* C4: after a successful create with response r, users has exactly one
\* entry with r's id, r is its last entry, and it is one longer than before.
C4_CreateAppendsOne ==
    (Succeeded /\ last.op = "handleCreateUser") =>
        /\ Cardinality(Holders(users, last.resp.id)) = 1
        /\ users # <<>> /\ users[Len(users)] = last.resp
        /\ Len(users) = Len(last.pre.users) + 1

\* C5: after a successful update with response r, users has the size and
\* the order of identifiers it had before, at most one entry with r's id,
\* that entry equal to r; with no such entry users is unchanged, and the
\* update is reported as a success and closes the session.
C5_UpdateReplacesInPlace ==
    (Succeeded /\ last.op = "handleUpdateUser") =>
        /\ IdsOf(users) = IdsOf(last.pre.users)
        /\ Cardinality(Holders(users, last.resp.id)) <= 1
        /\ \A i \in Holders(users, last.resp.id) : users[i] = last.resp
        /\ Holders(last.pre.users, last.resp.id) = {} => users = last.pre.users
        /\ snackbar.open /\ snackbar.severity = "success"
        /\ ~openDialog

\* C6: after a successful delete of id, users has no entry with that id
\* and keeps every other entry in its order; deleting an absent id changes
\* nothing.
C6_DeleteRemovesOnlyId ==
    (Succeeded /\ last.op = "handleDeleteUser") =>
        LET before == last.pre.users
            keep == {i \in DOMAIN before : before[i].id # last.call.id}
            rank(i) == Cardinality({j \in keep : j <= i})
        IN /\ Holders(users, last.call.id) = {}
           /\ Len(users) = Cardinality(keep)
           /\ \A i \in keep : users[rank(i)] = before[i]
           /\ Holders(before, last.call.id) = {} => users = before

\* C7: a failed create or update leaves the session and the Edit Buffer as
\* they were; an open session is closed only by cancel or by a create or
\* update call that succeeded.
C7_FailureKeepsSession ==
    /\ (Failed /\ last.op \in {"handleCreateUser", "handleUpdateUser"}) =>
          /\ SessionOf(openDialog, editingUser)
                = SessionOf(last.pre.openDialog, last.pre.editingUser)
          /\ formData = last.pre.formData
    /\ (last.pre.openDialog /\ ~openDialog) =>
          \/ last.op = "cancel"
          \/ Succeeded /\ last.op \in {"handleCreateUser", "handleUpdateUser"}

\* the create and update calls in flight
SubmitCalls == {c \in inflight : c.kind \in {"create", "update"}}

\* the call the submit just taken issued
SubmittedCall == CHOOSE c \in inflight : c.n = nCalls

\* C8: no create or update call is issued from an Edit Buffer in which one
\* of name, email, phone, username, address.street, address.city is empty.
C8_NoCallWithEmptyRequired ==
    \A c \in SubmitCalls :
        /\ ~IsBlankSeq(c.body.name)
        /\ ~IsBlank(c.body.email)
        /\ ~IsBlank(c.body.phone)
        /\ ~IsBlankSeq(c.body.username)
        /\ ~IsBlank(c.body.address.street)
        /\ ~IsBlank(c.body.address.city)

\* C9: the username in the payload of a call that submit issues is the
\* edited record's username when the session edits a record that has one,
\* and the derived username otherwise.
C9_PayloadUsername ==
    last.op = "submit" =>
        SubmittedCall.body.username =
            IF editingUser # <<>> /\ ~IsBlankSeq(editingUser[1].username)
            THEN editingUser[1].username
            ELSE DerivedUsername(formData.name)

\* what the derived username of each name of the model is, written out;
\* an absent name is printed as the text undefined
ExpectedDerived(name) ==
    CASE name = <<>> -> <<"U","S","E","R","-">>
      [] name = JaneDoe ->
           <<"U","S","E","R","-","j","a","n","e","d","o","e">>
      [] name = AnnLee -> <<"U","S","E","R","-","a","n","n","l","e","e">>
      [] name = BobRay -> <<"U","S","E","R","-","b","o","b","r","a","y">>
      [] name = UndefinedSeq ->
           <<"U","S","E","R","-","u","n","d","e","f","i","n","e","d">>

\* C10, first half: in an open session whose buffer has no username the
\* presented username is USER- followed by the name in lower case without
\* whitespace.
C10_PresentedIsDerived ==
    (openDialog /\ IsBlankSeq(formData.username)) =>
        PresentedUsername(formData) = ExpectedDerived(formData.name)

\* C10, second half: in an open session whose buffer has a username, a
\* change of the name changes neither the stored nor the presented username.
C10_NameChangeKeepsUsername ==
    (/\ openDialog /\ openDialog'
     /\ ~IsBlankSeq(formData.username)
     /\ formData'.name # formData.name)
        => /\ formData'.username = formData.username
           /\ PresentedUsername(formData') = formData.username

\* C10: the presented username is the derived one while the buffer has no
\* username, and a username the buffer has survives every change of name.
C10_DerivedUsername ==
    []C10_PresentedIsDerived /\ [][C10_NameChangeKeepsUsername]_vars

\* C10 happens: a record with a username is being edited, its name has been
\* changed to Jane Doe, and the username is still the record's
C10_Witness ==
    /\ openDialog
    /\ editingUser = <<User1>>
    /\ formData.name = JaneDoe
    /\ formData.username = User1.username
    /\ PresentedUsername(formData) = <<"a","n","n">>

\* C11: a load that succeeds makes users the fetched list; a load that
\* fails (network error or non-success response) leaves users as it was
\* and emits a failure notification.
C11_LoadAllOrNothing ==
    last.op = "fetchUsers" =>
        IF last.outcome = "ok"
        THEN users = last.resp
        ELSE /\ users = last.pre.users
             /\ snackbar = Snack("Failed to fetch users", "error")

\* the step last taken emitted a notification
Emitted ==
    \/ Resolved
    \/ last.op = "fetchUsers" /\ Caught("load", last.outcome)

\* the notifications a handler emits
NoticesOf(op) ==
    IF op = "fetchUsers" THEN {Snack("Failed to fetch users", "error")}
    ELSE IF op = "handleCreateUser"
    THEN {Snack("User created successfully", "success"),
          Snack("Failed to create user", "error")}
    ELSE IF op = "handleUpdateUser"
    THEN {Snack("User updated successfully", "success"),
          Snack("Failed to update user", "error")}
    ELSE {Snack("User deleted successfully", "success"),
          Snack("Failed to delete user", "error")}

C13_SeverityMatchesOutcome ==
    Resolved =>
        /\ snackbar \in NoticesOf(last.op)
        /\ snackbar.severity = "success" <=> last.outcome = "ok"
        /\ snackbar.severity = "error" => users = last.pre.users

\* a submit issues exactly one call, which carries the buffer: a create in
\* state Creating, an update addressed to the edited record's id in state
\* Editing
SubmitIssuesOneCall ==
    last'.op = "submit" =>
        \E c \in inflight' \ inflight :
            /\ inflight' = inflight \cup {c}
            /\ c.body = formData
            /\ IF editingUser = <<>>
               THEN c.kind = "create"
               ELSE c.kind = "update" /\ c.id = editingUser[1].id

\* after a successful update, the entry with the call's id equals the
\* response body
UpdatedEntryIsResponse ==
    last.op = "handleUpdateUser" /\ last.outcome = "ok" =>
        \A i \in DOMAIN users :
            users[i].id = last.call.id => users[i] = last.resp

\* C14: with a valid buffer, submit in state Creating issues exactly one
\* create call carrying the buffer, submit in state Editing(id) issues exactly
\* one update call addressed to id carrying the buffer, nested changes
\* included; after a successful update the collection's entry id equals the
\* response body.
C14_SubmitThenApply ==
    /\ [][SubmitIssuesOneCall]_vars
    /\ []UpdatedEntryIsResponse

\* record 1 was edited to address.city = Boston, the update succeeded, and
\* entry 1 is the response body with that city
C14_Witness ==
    /\ last.op = "handleUpdateUser"
    /\ last.outcome = "ok"
    /\ last.call.id = User1.id
    /\ last.call.body.address.city = "Boston"
    /\ User1.address.city # "Boston"
    /\ \E i \in DOMAIN users :
         /\ users[i].id = User1.id
         /\ users[i] = last.resp
         /\ users[i].address.city = "Boston"

\* every field of a record, by its path
LeafPaths ==
    {<<"id">>, <<"name">>, <<"email">>, <<"phone">>, <<"username">>,
     <<"website">>, <<"address", "street">>, <<"address", "city">>,
     <<"company", "name">>}

\* the field of record r at a path
Get(r, path) ==
    IF Len(path) > 1 THEN r[path[1]][path[2]] ELSE r[path[1]]

\* C15: a field-change intent with a recognized path sets exactly that field
\* of the Edit Buffer to the new value and leaves every other buffer field,
\* the siblings in a nested group included, the session state and the Record
\* Collection unchanged: an edit is not visible in the collection.
C15_ChangeSetsOneField ==
    [][last'.op = "change" =>
          /\ \E path \in InputNames :
               /\ Get(formData', path) \in InputValues(path)
               /\ \A q \in LeafPaths \ {path} :
                    Get(formData', q) = Get(formData, q)
          /\ DOMAIN formData' = DOMAIN formData
          /\ DOMAIN formData'.address = DOMAIN formData.address
          /\ DOMAIN formData'.company = DOMAIN formData.company
          /\ users' = users
          /\ openDialog' = openDialog
          /\ editingUser' = editingUser]_vars

\* in a session editing record 1 the city was changed to Boston: the street
\* in the buffer is the record's, and the collection's entry is as it was
C15_Witness ==
    /\ last.op = "change"
    /\ editingUser = <<User1>>
    /\ formData.address.city = "Boston"
    /\ formData.address.street = User1.address.street
    /\ \E i \in DOMAIN users : users[i] = User1

AllFieldsEmpty(fd) ==
    /\ fd.id = NoId
    /\ fd.name = <<>>
    /\ fd.username = <<>>
    /\ \A q \in LeafPaths \ {<<"id">>, <<"name">>, <<"username">>} :
         Get(fd, q) = ""

\* C17: cancel moves the session from any open state to Closed, and whatever
\* sessions there were before, an open-create intent starts in Creating with
\* every buffer field at its empty default and an open-edit intent on record
\* r starts in Editing(r) with the buffer equal to r: nothing of an earlier
\* session's buffer is in a later session.
C17_SessionsStartClean ==
    /\ last.op = "cancel" => ~openDialog /\ editingUser = <<>>
    /\ last.op = "openAdd" =>
         openDialog /\ editingUser = <<>> /\ AllFieldsEmpty(formData)
    /\ last.op = "openEdit" =>
         /\ openDialog
         /\ \E i \in DOMAIN users :
              editingUser = <<users[i]>> /\ formData = users[i]

\* a session whose buffer was filled and submitted was left while its call
\* was in flight, and the session opened after it starts empty
C17_Witness ==
    /\ last.op = "openAdd"
    /\ AllFieldsEmpty(formData)
    /\ \E c \in SubmitCalls : ~AllFieldsEmpty(c.body)

\* C18: once a successful delete of an identifier has been applied, no later
\* completion of an update or delete call puts an entry with that identifier
\* back: users has an entry with it again only after a create response that
\* carries it.  deleted holds the identifiers deleted with success and not
\* carried by a create response since.
C18_DeletedStaysDeleted ==
    \A id \in deleted : Holders(users, id) = {}

\* the session that issued a create or update call
SessionOfCall(c) ==
    IF c.kind = "create" THEN <<"Creating">> ELSE <<"Editing", c.id>>

\* C19: a successful create or update response closes only the session that
\* issued the call.  When the session open at the response is another one
\* (Creating for an update call, Editing(j) for a create call or for an
\* update of another record), it stays open with its state and its buffer.
C19_ResponseClosesOwnSession ==
    ( /\ Succeeded
      /\ last.op \in {"handleCreateUser", "handleUpdateUser"}
      /\ last.pre.openDialog
      /\ SessionOf(last.pre.openDialog, last.pre.editingUser)
            # SessionOfCall(last.call) )
    => /\ openDialog
       /\ editingUser = last.pre.editingUser
       /\ formData = last.pre.formData

\* C20: while the initial load is outstanding no open-create, open-edit,
\* submit or delete intent is taken: nothing has happened since the mount,
\* so the load's result is applied to the collection as it was at the mount,
\* with no create, update or delete call issued; and when the load ends,
\* with success or with failure, loading is false and stays false.
C20_LoadGate ==
    /\ loading =>
         /\ last.op = "mount"
         /\ users = NoUsers
         /\ ~openDialog
         /\ nCalls = 0
         /\ inflight = {LoadCall}
    /\ last.op = "fetchUsers" =>
         /\ ~loading
         /\ last.pre.users = NoUsers
         /\ nCalls = 0
    /\ ~loading => LoadCall \notin inflight

\* the load failed and the page is shown, with the empty collection
C20_Witness ==
    /\ last.op = "fetchUsers"
    /\ last.outcome = "neterr"
    /\ ~loading
    /\ users = NoUsers

=============================================================================
